---- MODULE Spec2Model ----
(***************************************************************************)
(* A model of pyowm/webapi25/forecast.py: the Forecast value object and    *)
(* its ForecastIterator.                                                   *)
(*                                                                         *)
(* Python lists are objects with identity, so the model keeps a heap of    *)
(* list objects and the Forecast holds a reference into it.  The client    *)
(* of the module owns the list it hands to the constructor and every list  *)
(* that get_weathers() returns, and may mutate any of them at any time.    *)
(***************************************************************************)
EXTENDS Integers, Sequences, FiniteSets

\* Longest list of weathers the client builds.
MaxLen == 1
\* The objects the client creates besides the Forecast and its list: two,
\* each an iterator or a list returned by get_weathers.
ClientObjects == {"first", "second"}
MaxObjects == Cardinality(ClientObjects)

\* The Weather and Location collaborators are opaque entities.
Weather == {"w1", "w2"}
Locations == {"loc"}
\* "3h" and "daily" are the documented tags, "bogus" is any other value.
Intervals == {"3h", "bogus"}
ReceptionTimes == {-1, 0, 1}
\* Format tokens of get_reception_time; "default" is the call with no argument.
TimeFormats == {"default", "unix", "iso", "rfc822"}
\* Indices handed to get(): every position of the longest list, one past it,
\* and as many negative ones.
Indices == (0 - MaxLen - 1) .. MaxLen

RECURSIVE SeqsUpTo(_)
SeqsUpTo(n) ==
    IF n = 0 THEN {<<>>}
    ELSE LET shorter == SeqsUpTo(n - 1)
         IN shorter \cup {Append(s, w) : s \in {t \in shorter : Len(t) = n - 1}, w \in Weather}

VARIABLES
    heap,       \* the list objects: heap[r] is the content of list r
    forecast,   \* the Forecast object, NoForecast before construction
    iters,      \* the ForecastIterator objects created so far
    hist,       \* history, per iterator: what it yielded, whether it has stopped
    returned,   \* history: the list references get_weathers has returned
    last        \* the last call made by the client and its outcome

vars == <<heap, forecast, iters, hist, returned, last>>

NoForecast == [constructed |-> FALSE]
\* The list object the client builds and passes to Forecast(...).
CallerList == 1

\* Outcomes of a call.
Return(v) == [raised |-> "none", value |-> v]
Raise(e) == [raised |-> e, value |-> "none"]

\* Arguments and results are recorded with their type.
None == [none |-> TRUE]
Num(n) == [int |-> n]
Str(s) == [str |-> s]
Bool(b) == [bool |-> b]
Ref(r) == [ref |-> r]
Doc(d) == [doc |-> d]
Text(t) == [text |-> t]
Call(op, arg, raised, value) ==
    [op |-> op, arg |-> arg, raised |-> raised, value |-> value]

-----------------------------------------------------------------------------
(* Python list semantics used by the module. *)

\* lst[index]: a negative index counts from the end; IndexError outside
\* -len(lst) .. len(lst)-1.
ListGetItem(lst, index) ==
    IF 0 <= index /\ index < Len(lst) THEN Return(lst[index + 1])
    ELSE IF index < 0 /\ 0 - Len(lst) <= index THEN Return(lst[Len(lst) + index + 1])
    ELSE Raise("IndexError")

-----------------------------------------------------------------------------
(* Forecast *)

\* long(x) on an integer argument.
long(x) == x

\* Forecast.__init__ without the check of reception_time.
Forecast_init_unchecked(interval, reception_time, location, weathers) ==
    [outcome |-> Return("Forecast"),
     obj |-> [constructed |-> TRUE,
              interval |-> interval,
              reception_time |-> long(reception_time),
              location |-> location,
              weathers |-> weathers]]

\* Forecast.__init__: the outcome and the object built.  The weathers
\* argument is a reference to the caller's list and is stored as it is.
Forecast_init(interval, reception_time, location, weathers) ==
    IF long(reception_time) < 0
    THEN [outcome |-> Raise("ValueError"), obj |-> NoForecast]
    ELSE [outcome |-> Return("Forecast"),
          obj |-> [constructed |-> TRUE,
                   interval |-> interval,
                   reception_time |-> long(reception_time),
                   location |-> location,
                   weathers |-> weathers]]

\* The content of the list the Forecast refers to.
Contents == heap[forecast.weathers]

get(index) == ListGetItem(Contents, index)

count_weathers == Return(Len(Contents))

get_interval == Return(forecast.interval)

\* set_interval that keeps only the documented tags.
set_interval_validated(interval) ==
    IF interval \in {"3h", "daily"} THEN [forecast EXCEPT !.interval = interval]
    ELSE forecast

\* set_interval: the Forecast after the call.
set_interval(interval) == [forecast EXCEPT !.interval = interval]

\* timeformatutils.UNIXtime_to_ISO8601 is outside this module: its result
\* is kept as an opaque rendering of the timestamp.
UNIXtime_to_ISO8601(t) == [iso8601 |-> t]

\* get_reception_time that falls back to UNIX time for an unknown format.
get_reception_time_lenient(timeformat) ==
    IF timeformat = "iso"
    THEN Return([str |-> UNIXtime_to_ISO8601(forecast.reception_time)])
    ELSE Return([long |-> forecast.reception_time])

\* get_reception_time returns a long or a str.
get_reception_time(timeformat) ==
    IF timeformat = "unix" THEN Return([long |-> forecast.reception_time])
    ELSE IF timeformat = "iso"
    THEN Return([str |-> UNIXtime_to_ISO8601(forecast.reception_time)])
    ELSE Raise("ValueError")

\* The default value of the timeformat parameter.
DefaultTimeFormat(timeformat) == IF timeformat = "default" THEN "unix" ELSE timeformat

get_location == Return(forecast.location)

\* get_weathers that hands out the internal list itself.
get_weathers_alias ==
    [heap |-> heap, outcome |-> Return(forecast.weathers)]

\* get_weathers: list(self._weathers) allocates a new list object holding the
\* same items; the heap after the call and the reference returned.
get_weathers ==
    [heap |-> Append(heap, Contents), outcome |-> Return(Len(heap) + 1)]

-----------------------------------------------------------------------------
(* ForecastIterator *)

ForecastIterator_init(obj) == [obj |-> obj, cnt |-> 0]

\* Forecast.__iter__
Forecast_iter == ForecastIterator_init("forecast")

\* ForecastIterator.next: the iterator after the call and the outcome.
ForecastIterator_next(it) ==
    LET r == get(it.cnt)
    IN IF r.raised = "IndexError"
       THEN [it |-> it, outcome |-> Raise("StopIteration")]
       ELSE [it |-> [it EXCEPT !.cnt = it.cnt + 1], outcome |-> Return(r.value)]

\* "for w in self": a fresh iterator driven until StopIteration.
RECURSIVE Drive(_, _)
Drive(it, acc) ==
    LET r == ForecastIterator_next(it)
    IN IF r.outcome.raised = "StopIteration" THEN acc
       ELSE Drive(r.it, Append(acc, r.outcome.value))

ForEachWeather == Drive(Forecast_iter, <<>>)

-----------------------------------------------------------------------------
(* JSON: texts are sequences of tokens. *)

\* Weather.to_JSON and Location.to_JSON belong to the collaborators: each
\* returns the text of one JSON object.
Weather_to_JSON(w) == <<"{", w, "}">>
Location_to_JSON(loc) == <<"{", loc, "}">>

\* sep.join(parts)
RECURSIVE Join(_, _)
Join(parts, sep) ==
    IF parts = <<>> THEN <<>>
    ELSE IF Len(parts) = 1 THEN parts[1]
    ELSE parts[1] \o <<sep>> \o Join(Tail(parts), sep)

\* The pieces of a text between the separators that are not nested in
\* braces or brackets.
RECURSIVE SplitTop(_, _, _, _)
SplitTop(text, depth, piece, pieces) ==
    IF text = <<>> THEN Append(pieces, piece)
    ELSE LET c == Head(text)
         IN IF c = "," /\ depth = 0
            THEN SplitTop(Tail(text), depth, <<>>, Append(pieces, piece))
            ELSE SplitTop(Tail(text),
                          IF c \in {"{", "["} THEN depth + 1
                          ELSE IF c \in {"}", "]"} THEN depth - 1 ELSE depth,
                          Append(piece, c), pieces)

\* json.loads on the texts this module builds: an object or an array.
RECURSIVE json_loads(_)
json_loads(text) ==
    LET inner == SubSeq(text, 2, Len(text) - 1)
    IN IF Head(text) = "["
       THEN IF inner = <<>> THEN <<>>
            ELSE LET pieces == SplitTop(inner, 0, <<>>, <<>>)
                 IN [i \in 1 .. Len(pieces) |-> json_loads(pieces[i])]
       ELSE [object |-> inner]

\* to_JSON whose loop over the weathers starts at the second one.
to_JSON_skip_first ==
    LET ws == Drive([obj |-> "forecast", cnt |-> 1], <<>>)
    IN Return([interval |-> forecast.interval,
               reception_time |-> forecast.reception_time,
               Location |-> json_loads(Location_to_JSON(forecast.location)),
               weathers |-> json_loads(
                   <<"[">>
                   \o Join([i \in 1 .. Len(ws) |-> Weather_to_JSON(ws[i])], ",")
                   \o <<"]">>)])

\* to_JSON: the document handed to json.dumps.
to_JSON ==
    LET ws == ForEachWeather
    IN Return([interval |-> forecast.interval,
               reception_time |-> forecast.reception_time,
               Location |-> json_loads(Location_to_JSON(forecast.location)),
               weathers |-> json_loads(
                   <<"[">>
                   \o Join([i \in 1 .. Len(ws) |-> Weather_to_JSON(ws[i])], ",")
                   \o <<"]">>)])

-----------------------------------------------------------------------------
(* XML: an element is a tag, a text and its children. *)

Element(tag, text, children) == [tag |-> tag, text |-> text, children |-> children]

\* Weather._to_DOM and Location._to_DOM belong to the collaborators.
Weather_to_DOM(w) == Element("weather", <<w>>, <<>>)
Location_to_DOM(loc) == Element("location", <<loc>>, <<>>)

Digit == <<"0", "1", "2", "3", "4", "5", "6", "7", "8", "9">>

\* str(n) for n >= 0
RECURSIVE str(_)
str(n) == IF n < 10 THEN <<Digit[n + 1]>> ELSE str(n \div 10) \o <<Digit[(n % 10) + 1]>>

to_DOM ==
    LET ws == ForEachWeather
    IN Element("forecast", <<>>,
               << Element("interval", <<forecast.interval>>, <<>>),
                  Element("reception_time", str(forecast.reception_time), <<>>),
                  Location_to_DOM(forecast.location),
                  Element("weathers", <<>>,
                          [i \in 1 .. Len(ws) |-> Weather_to_DOM(ws[i])]) >>)

XMLDeclaration == "<?xml version='1.0' encoding='utf8'?>\n"

\* ET.tostring(node, encoding='utf8', method='xml') without the declaration.
RECURSIVE ET_element(_)
ET_element(node) ==
    <<"<", node.tag, ">">>
    \o node.text
    \o Join([i \in 1 .. Len(node.children) |-> ET_element(node.children[i])], "")
    \o <<"</", node.tag, ">">>

ET_tostring(node) == <<XMLDeclaration>> \o ET_element(node)

\* text.split(sep): the pieces of the text between the separators.
RECURSIVE Split(_, _, _, _)
Split(text, sep, piece, pieces) ==
    IF text = <<>> THEN Append(pieces, piece)
    ELSE IF Head(text) = sep THEN Split(Tail(text), sep, <<>>, Append(pieces, piece))
    ELSE Split(Tail(text), sep, Append(piece, Head(text)), pieces)

to_XML(preamble) ==
    LET result == ET_tostring(to_DOM)
    IN IF ~preamble THEN Return(Split(result, XMLDeclaration, <<>>, <<>>)[2])
       ELSE Return(result)

-----------------------------------------------------------------------------
Init ==
    /\ heap \in {<<ws>> : ws \in SeqsUpTo(MaxLen)}
    /\ forecast = NoForecast
    /\ iters = <<>>
    /\ hist = <<>>
    /\ returned = {}
    /\ last = Call("none", None, "none", None)

\* Objects the client has created: list copies and iterators.
Objects == (Len(heap) - 1) + Len(iters)

\* Forecast(interval, reception_time, location, weathers) on the caller's list
Construct(interval, reception_time, location) ==
    /\ ~forecast.constructed
    /\ LET r == Forecast_init(interval, reception_time, location, CallerList)
       IN /\ forecast' = r.obj
          /\ last' = Call("init", Num(reception_time), r.outcome.raised, None)
    /\ UNCHANGED <<heap, iters, hist, returned>>

CallGet(index) ==
    /\ forecast.constructed
    /\ LET r == get(index)
       IN last' = Call("get", Num(index), r.raised, Str(r.value))
    /\ UNCHANGED <<heap, forecast, iters, hist, returned>>

CallCountWeathers ==
    /\ forecast.constructed
    /\ last' = Call("count_weathers", None, "none", Num(count_weathers.value))
    /\ UNCHANGED <<heap, forecast, iters, hist, returned>>

CallGetInterval ==
    /\ forecast.constructed
    /\ last' = Call("get_interval", None, "none", Str(get_interval.value))
    /\ UNCHANGED <<heap, forecast, iters, hist, returned>>

CallSetInterval(interval) ==
    /\ forecast.constructed
    /\ forecast' = set_interval(interval)
    /\ last' = Call("set_interval", Str(interval), "none", None)
    /\ UNCHANGED <<heap, iters, hist, returned>>

CallGetReceptionTime(timeformat) ==
    /\ forecast.constructed
    /\ LET r == get_reception_time(DefaultTimeFormat(timeformat))
       IN last' = Call("get_reception_time", Str(timeformat), r.raised,
                       IF r.raised = "none" THEN r.value ELSE None)
    /\ UNCHANGED <<heap, forecast, iters, hist, returned>>

CallGetLocation ==
    /\ forecast.constructed
    /\ last' = Call("get_location", None, "none", Str(get_location.value))
    /\ UNCHANGED <<heap, forecast, iters, hist, returned>>

CallGetWeathers ==
    /\ forecast.constructed
    /\ Objects < MaxObjects
    /\ LET r == get_weathers
       IN /\ heap' = r.heap
          /\ returned' = returned \cup {r.outcome.value}
          /\ last' = Call("get_weathers", None, "none", Ref(r.outcome.value))
    /\ UNCHANGED <<forecast, iters, hist>>

CallToJSON ==
    /\ forecast.constructed
    /\ last' = Call("to_JSON", None, "none", Doc(to_JSON.value))
    /\ UNCHANGED <<heap, forecast, iters, hist, returned>>

CallToXML(preamble) ==
    /\ forecast.constructed
    /\ last' = Call("to_XML", Bool(preamble), "none", Text(to_XML(preamble).value))
    /\ UNCHANGED <<heap, forecast, iters, hist, returned>>

\* iter(forecast)
CallIter ==
    /\ forecast.constructed
    /\ Objects < MaxObjects
    /\ iters' = Append(iters, Forecast_iter)
    /\ hist' = Append(hist, [yielded |-> <<>>, stopped |-> FALSE])
    /\ last' = Call("iter", None, "none", Num(Len(iters) + 1))
    /\ UNCHANGED <<heap, forecast, returned>>

\* next() with the cursor kept on the class: every iterator shares it.
CallNext_shared_cursor(i) ==
    /\ i \in 1 .. Len(iters)
    /\ LET r == ForecastIterator_next(iters[i])
       IN /\ iters' = [j \in 1 .. Len(iters) |-> r.it]
          /\ hist' = [hist EXCEPT ![i] =
                        IF r.outcome.raised = "none"
                        THEN [@ EXCEPT !.yielded = Append(@, r.outcome.value)]
                        ELSE [@ EXCEPT !.stopped = TRUE]]
          /\ last' = Call("next", Num(i), r.outcome.raised, Str(r.outcome.value))
    /\ UNCHANGED <<heap, forecast, returned>>

\* it.next() on the i-th iterator
CallNext(i) ==
    /\ i \in 1 .. Len(iters)
    /\ LET r == ForecastIterator_next(iters[i])
       IN /\ iters' = [iters EXCEPT ![i] = r.it]
          /\ hist' = [hist EXCEPT ![i] =
                        IF r.outcome.raised = "none"
                        THEN [@ EXCEPT !.yielded = Append(@, r.outcome.value)]
                        ELSE [@ EXCEPT !.stopped = TRUE]]
          /\ last' = Call("next", Num(i), r.outcome.raised, Str(r.outcome.value))
    /\ UNCHANGED <<heap, forecast, returned>>

(* The client's own operations on the list objects it holds: the list it    *)
(* passed to the constructor and the lists get_weathers returned.           *)

ListOps == {"list.append", "list.pop", "list.reverse", "list.setitem"}

ListAppend(r, w) ==
    /\ r \in 1 .. Len(heap)
    /\ Len(heap[r]) < MaxLen
    /\ heap' = [heap EXCEPT ![r] = Append(@, w)]
    /\ last' = Call("list.append", Ref(r), "none", None)
    /\ UNCHANGED <<forecast, iters, hist, returned>>

ListPop(r) ==
    /\ r \in 1 .. Len(heap)
    /\ heap[r] # <<>>
    /\ heap' = [heap EXCEPT ![r] = SubSeq(@, 1, Len(@) - 1)]
    /\ last' = Call("list.pop", Ref(r), "none", None)
    /\ UNCHANGED <<forecast, iters, hist, returned>>

ListReverse(r) ==
    /\ r \in 1 .. Len(heap)
    /\ heap' = [heap EXCEPT ![r] = [i \in 1 .. Len(@) |-> @[Len(@) + 1 - i]]]
    /\ last' = Call("list.reverse", Ref(r), "none", None)
    /\ UNCHANGED <<forecast, iters, hist, returned>>

ListSetItem(r, i, w) ==
    /\ r \in 1 .. Len(heap)
    /\ i \in 1 .. Len(heap[r])
    /\ heap[r][i] # w
    /\ heap' = [heap EXCEPT ![r][i] = w]
    /\ last' = Call("list.setitem", Ref(r), "none", None)
    /\ UNCHANGED <<forecast, iters, hist, returned>>

Next ==
    \/ \E iv \in Intervals, t \in ReceptionTimes, loc \in Locations : Construct(iv, t, loc)
    \/ \E index \in Indices : CallGet(index)
    \/ CallCountWeathers
    \/ CallGetInterval
    \/ \E iv \in Intervals : CallSetInterval(iv)
    \/ \E tf \in TimeFormats : CallGetReceptionTime(tf)
    \/ CallGetLocation
    \/ CallGetWeathers
    \/ CallToJSON
    \/ \E p \in BOOLEAN : CallToXML(p)
    \/ CallIter
    \/ \E i \in 1 .. MaxObjects : CallNext(i)
    \/ \E r \in 1 .. MaxObjects + 1 : \E w \in Weather : ListAppend(r, w)
    \/ \E r \in 1 .. MaxObjects + 1 : ListPop(r)
    \/ \E r \in 1 .. MaxObjects + 1 : ListReverse(r)
    \/ \E r \in 1 .. MaxObjects + 1 : \E i \in 1 .. MaxLen, w \in Weather : ListSetItem(r, i, w)

Spec == Init /\ [][Next]_vars

-----------------------------------------------------------------------------
(* Properties *)

IterIds == 1 .. Len(iters)
Count == count_weathers.value

\* C1: a fresh iterator run to completion has yielded exactly
\* count_weathers() entities, the k-th being get(k-1), and two iterators
\* run to completion have yielded identical sequences.
C1_FullIteration ==
    /\ \A i \in IterIds :
         hist[i].stopped =>
           /\ Len(hist[i].yielded) = Count
           /\ \A k \in 1 .. Len(hist[i].yielded) : get(k - 1) = Return(hist[i].yielded[k])
    /\ \A i, j \in IterIds :
         hist[i].stopped /\ hist[j].stopped => hist[i].yielded = hist[j].yielded

\* C2: get(index) returns the entity at position index when
\* 0 <= index < count_weathers() and fails with IndexError for every other
\* index, the negative ones included.
C2_GetOutOfRange ==
    last.op = "get" =>
      IF 0 <= last.arg.int /\ last.arg.int < Count
      THEN last.raised = "none" /\ last.value = Str(Contents[last.arg.int + 1])
      ELSE last.raised = "IndexError"

\* C3: once the Forecast is constructed, no step (a Forecast operation or
\* the caller changing the list it passed) changes count_weathers() or any
\* get(i): they stay those of the list passed at construction.
C3_ExclusiveOwnership ==
    [][forecast.constructed =>
         /\ Count' = Count
         /\ \A i \in 0 .. MaxLen : get(i)' = get(i)]_vars

C5_ReceptionTimeNonNegative ==
    /\ [](last.op = "init" /\ last.arg.int < 0 =>
            last.raised = "ValueError" /\ ~forecast.constructed)
    /\ [](forecast.constructed => forecast.reception_time >= 0)
    /\ [][forecast.constructed =>
            forecast'.constructed /\ forecast'.reception_time = forecast.reception_time]_vars

C5_Witness ==
    last.op = "init" /\ last.arg.int < 0 /\ last.raised = "ValueError" /\ ~forecast.constructed

\* C6: construction with t >= 0 stores t; get_reception_time('unix') and
\* get_reception_time() return the stored t, a format other than 'unix' and
\* 'iso' raises ValueError, and the call changes nothing of the Forecast.
C6_GetReceptionTime ==
    /\ [](last.op = "init" /\ last.raised = "none" =>
            forecast.constructed /\ forecast.reception_time = last.arg.int)
    /\ [](last.op = "get_reception_time" =>
            /\ last.arg.str \in {"unix", "default"} =>
                 last.raised = "none" /\ last.value = [long |-> forecast.reception_time]
            /\ last.arg.str \notin {"unix", "default", "iso"} =>
                 last.raised = "ValueError")
    /\ [][last'.op = "get_reception_time" => forecast' = forecast /\ heap' = heap]_vars

C6_Witness ==
    /\ last.op = "get_reception_time"
    /\ last.arg.str = "default"
    /\ last.value = [long |-> 1]

\* C7: set_interval(v) never fails and stores v whatever v is, get_interval()
\* right after it returns v, and set_interval changes nothing but the
\* interval: not reception_time, location, the weathers, nor any iterator.
C7_SetInterval ==
    /\ [][last'.op = "set_interval" =>
            /\ last'.raised = "none"
            /\ get_interval'.value = last'.arg.str
            /\ forecast'.reception_time = forecast.reception_time
            /\ forecast'.location = forecast.location
            /\ forecast'.weathers = forecast.weathers
            /\ heap' = heap
            /\ iters' = iters]_vars
    /\ [][last.op = "set_interval" /\ last'.op = "get_interval" =>
            last'.value = last.arg]_vars

C7_Witness ==
    /\ last.op = "set_interval"
    /\ last.arg = Str("bogus")
    /\ forecast.interval = "bogus"
    /\ \E i \in IterIds : iters[i].cnt > 0

C9_CursorBoundedEndSticky ==
    [][/\ last'.op = "next" =>
            LET i == last'.arg.int
            IN \/ /\ last'.raised = "none"
                  /\ last'.value = Str(Contents[iters[i].cnt + 1])
                  /\ iters'[i].cnt = iters[i].cnt + 1
               \/ /\ last'.raised = "StopIteration"
                  /\ iters[i].cnt >= Count
                  /\ iters'[i].cnt = iters[i].cnt
       /\ \A i \in 1 .. Len(iters') : iters'[i].cnt \in 0 .. Count'
       /\ last'.op = "next" /\ hist[last'.arg.int].stopped =>
            last'.raised = "StopIteration"]_vars

\* C10: a next() call on one iterator yields what that iterator alone would
\* yield after its own earlier calls, leaves every other iterator and the
\* Forecast as they were; to_JSON, to_XML, get, get_weathers and
\* set_interval leave every iterator as it was.
C10_IndependentCursors ==
    [][/\ last'.op = "next" =>
            LET i == last'.arg.int
                c == Len(hist[i].yielded)
            IN /\ forecast' = forecast
               /\ heap' = heap
               /\ IF c < Count
                  THEN /\ last'.raised = "none"
                       /\ last'.value = Str(Contents[c + 1])
                       /\ hist'[i].yielded = Append(hist[i].yielded, Contents[c + 1])
                  ELSE /\ last'.raised = "StopIteration"
                       /\ hist'[i].yielded = hist[i].yielded
               /\ \A j \in IterIds \ {i} : iters'[j] = iters[j] /\ hist'[j] = hist[j]
       /\ last'.op \in {"to_JSON", "to_XML", "get", "get_weathers", "set_interval"} =>
            iters' = iters /\ hist' = hist]_vars

C10_Witness ==
    /\ Len(iters) = 2
    /\ last.op = "next"
    /\ last = Call("next", Num(1), "none", Str("w2"))
    /\ iters[1].cnt = 1
    /\ hist[1].yielded = <<"w2">>
    /\ hist[2].yielded = <<"w2">>
    /\ hist[2].stopped
    /\ Len(Contents) = MaxLen
====
